---- MODULE Spec2Model ----
(***************************************************************************)
(* Model of synapse/handlers/identity.py: the IdentityHandler that talks   *)
(* to identity servers (getValidated3pid, bind, unbind, requestToken) and  *)
(* records bindings in the local store.                                    *)
(*                                                                         *)
(* Every handler is a Twisted inlineCallbacks coroutine of the one shared  *)
(* IdentityHandler.  A coroutine runs until it yields on a Deferred (an    *)
(* HTTP request or a store call) and is resumed when that Deferred fires;  *)
(* between the two, other coroutines run.  Each stretch of a handler       *)
(* between two yields is one action.  Callers start handlers               *)
(* independently of each other; for each caller the inputs of its call are *)
(* kept in `call`, the requests the call issued in `netlog`, and its       *)
(* outcome in `result`, until the caller has taken the outcome (action     *)
(* Returned).                                                              *)
(***************************************************************************)
EXTENDS Integers, Sequences, FiniteSets, TLC

\* ------------------------------------------------------------------ bounds

\* Number of identity servers that credentials and threepids name and that
\* bindings are recorded for.  HostName[NumHosts + 1] onwards occur, if at
\* all, only as the target of a rewrite rule.
NumHosts == 2

\* ------------------------------------------------------------- input sets

HostName == <<"id1.example", "id2.example", "id3.example", "id4.example", "id5.example">>
Hosts == {HostName[i] : i \in 1..NumHosts}
H1 == HostName[1]
H2 == HostName[2]
H3 == HostName[3]

\* Whoever calls a handler: each caller has at most one call in progress,
\* and the calls of different callers interleave at the yields.
Callers == {"c1", "c2"}

Users == {"@alice:home.example"}
Mediums == {"email"}
Addresses == {"alice@example.com"}

\* A Python dict with string keys is a function from the keys present.
EmptyDict == [k \in {} |-> ""]
Opt(k, V) == {EmptyDict} \cup {[x \in {k} |-> v] : v \in V}
Has(d, k) == k \in DOMAIN d

\* The store's table of bound threepids: one row per binding.
Binding(u, m, a, h) == [user_id |-> u, medium |-> m, address |-> a, id_server |-> h]
Bindings == {Binding(u, m, a, h) : u \in Users, m \in Mediums, a \in Addresses, h \in Hosts}

\* Configurations the handler is constructed over: the trusted list
\* (hs.config.trusted_third_party_id_servers), the testing override and the
\* rewrite rules (hs.config.rewrite_identity_server_urls, a dict hostname ->
\* hostname): no rule and nothing trusted; no rule and a trusted host; a rule
\* from a trusted host to an untrusted one; rules that chain, from an
\* untrusted host to a trusted one; rules that chain, with the override set.
Config(trusted, any, urls) == [trusted |-> trusted, any |-> any, urls |-> urls]
Rule == [h \in {H1} |-> H2]
Chain == [h \in {H1, H2} |-> IF h = H1 THEN H2 ELSE H3]
Configs ==
    { Config({}, FALSE, EmptyDict),
      Config({H1}, FALSE, EmptyDict),
      Config({H1}, FALSE, Rule),
      Config({H2}, FALSE, Chain),
      Config({}, TRUE, Chain) }

VARIABLES
    trusted_id_servers,            \* hs.config.trusted_third_party_id_servers
    trust_any_id_server,           \* hs.trust_any_id_server_just_for_testing_do_not_use
    rewrite_identity_server_urls,  \* hs.config.rewrite_identity_server_urls
    store,                         \* rows of the user-bound-threepid table
    pc,                            \* per caller: where its handler call stands
    call,                          \* per caller: the handler called and its arguments
    netlog,                        \* per caller: requests issued by the call, with responses
    todo,                          \* per caller, try_unbind_threepid: id_servers not yet iterated
    changed,                       \* per caller, try_unbind_threepid: the accumulator `changed`
    result                         \* per caller: how the call ended (return value or exception)

vars == <<trusted_id_servers, trust_any_id_server, rewrite_identity_server_urls,
          store, pc, call, netlog, todo, changed, result>>

config == <<trusted_id_servers, trust_any_id_server, rewrite_identity_server_urls>>

\* --------------------------------------------------------- pure functions

\* dict.get(id_server, id_server) on the rewrite rules: one lookup.
rewrite(id_server) ==
    IF id_server \in DOMAIN rewrite_identity_server_urls
    THEN rewrite_identity_server_urls[id_server]
    ELSE id_server

\* A trust check made on the host the rewrite rules give.
should_trust_id_server_after_rewrite(id_server) ==
    rewrite(id_server) \in trusted_id_servers \/ trust_any_id_server

\* A trust check that lets every host through.
should_trust_id_server_everyone(id_server) == TRUE

\* A trust check that forgets the testing override.
should_trust_id_server_no_override(id_server) == id_server \in trusted_id_servers

should_trust_id_server(id_server) ==
    IF id_server \notin trusted_id_servers
    THEN (IF trust_any_id_server THEN TRUE ELSE FALSE)
    ELSE TRUE

\* ------------------------------------------------- HTTP status codes used

\* `e.code in (400, 404, 501)`: the remote server does not support unbinding.
UnsupportedCodes == {400, 404, 501}

\* --------------------------------------------------- exceptions, results

SynapseError(code, msg) == [type |-> "SynapseError", code |-> code, msg |-> msg]
KeyError(key) == [type |-> "KeyError", code |-> 0, msg |-> key]
JSONDecodeError(text) == [type |-> "JSONDecodeError", code |-> 0, msg |-> text]

NoResult == [kind |-> "none"]
Return(v) == [kind |-> "return", value |-> v]
ReturnNone == [kind |-> "return_none"]
Raise(e) == [kind |-> "raise", error |-> e]

\* What the HTTP client hands back to the coroutine: a JSON body, or an
\* exception.  HttpResponseException derives from CodeMessageException;
\* anything else (connection refused, timeout, ...) is "Exception".
Ok(data) == [kind |-> "ok", cls |-> "", code |-> 200, msg |-> "", data |-> data]
Exc(cls, code, msg) == [kind |-> "exc", cls |-> cls, code |-> code, msg |-> msg, data |-> EmptyDict]

IsInstance(r, cls) ==
    /\ r.kind = "exc"
    /\ \/ r.cls = cls
       \/ r.cls = "HttpResponseException" /\ cls = "CodeMessageException"

\* e.to_synapse_error(): the remote status code carried over to a SynapseError.
to_synapse_error(e) == SynapseError(e.code, e.msg)

\* json.loads on the texts that occur: a JSON object text parses to the dict
\* it denotes, anything else raises a decode error.
JsonText == "{\"errcode\":\"M_FOO\",\"error\":\"no\"}"
ReasonText == "Not Found"
IsJson(text) == text \in {JsonText}
json_loads(text) ==
    CASE text = JsonText -> [errcode |-> "M_FOO", error |-> "no"]

\* ----------------------------------------------------------- the store

add_user_bound_threepid(s, user_id, medium, address, id_server) ==
    s \cup {Binding(user_id, medium, address, id_server)}

remove_user_bound_threepid(s, user_id, medium, address, id_server) ==
    s \ {Binding(user_id, medium, address, id_server)}

\* The lists with each element of S once: S in every order.
Orderings(S) ==
    {f \in [1..Cardinality(S) -> S] : \A i, j \in 1..Cardinality(S) : f[i] = f[j] => i = j}

\* The id_servers of the rows of (user_id, medium, address), as a list.  The
\* order of the list is the database's: every order is a list the call may
\* return.
get_id_servers_user_bound(s, user_id, medium, address) ==
    Orderings({h \in Hosts : Binding(user_id, medium, address, h) \in s})

\* ------------------------------------------------------- requests issued

\* One entry of a call's netlog: the id_server the handler was working on,
\* the URL's host (dial), the path, the destination_is the Authorization
\* header was signed for ("" when the request carries no such header), the
\* JSON body or query, and the response once it has arrived: the JSON body of
\* a 2xx response, or the class and code of the exception raised instead.
\* `settled` is set when the store call that follows the response has
\* completed.
Request(op, id_server, dial, path, auth, body) ==
    [op |-> op, id_server |-> id_server, dial |-> dial, path |-> path,
     auth |-> auth, body |-> body, state |-> "pending", exc |-> "", code |-> 0,
     data |-> EmptyDict, settled |-> FALSE]

Pending(c) == {r \in netlog[c] : r.state = "pending"}

Answered(r, resp) ==
    [r EXCEPT !.state = resp.kind, !.exc = resp.cls, !.code = resp.code,
              !.data = resp.data]

\* The request whose response the coroutine has taken and whose store call
\* is in progress.
Storing(c) == {r \in netlog[c] : r.state # "pending" /\ ~r.settled}

Settled(r) == [r EXCEPT !.settled = TRUE]

\* ------------------------------------------------------------ call frame

NoCall == [op |-> "none"]

\* A Deferred that fires runs its callbacks at once: the caller of a
\* finished call takes the outcome before any other coroutine runs.
Delivering == \E d \in Callers : pc[d] = "done"

\* Caller c's coroutine is at p, and it is its turn to run.
At(c, p) == pc[c] = p /\ ~Delivering

Start(c, cl) ==
    /\ At(c, "idle")
    /\ call' = [call EXCEPT ![c] = cl]
    /\ UNCHANGED config

Finish(c, r) ==
    /\ pc' = [pc EXCEPT ![c] = "done"]
    /\ result' = [result EXCEPT ![c] = r]

Await(c, p) ==
    /\ pc' = [pc EXCEPT ![c] = p]
    /\ result' = [result EXCEPT ![c] = NoResult]

NoRequest(c) == netlog' = [netlog EXCEPT ![c] = {}]

Issue(c, r) == netlog' = [netlog EXCEPT ![c] = @ \cup {r}]

Answer(c, r, resp) == netlog' = [netlog EXCEPT ![c] = (@ \ {r}) \cup {Answered(r, resp)}]

\* ------------------------------------------------------------- inputs

Secrets == {"s3cr3t"}
Sids == {"abc"}

\* creds dicts: the id_server under either spelling, under both, or missing,
\* with a client_secret; and the client_secret under either spelling, under
\* both, or missing, with an id_server; and one without a sid.
Creds ==
    { a @@ b @@ [client_secret |-> "s3cr3t", sid |-> "abc"] :
        a \in Opt("id_server", Hosts), b \in Opt("idServer", {H2}) }
    \cup
    { [id_server |-> H1, sid |-> "abc"] @@ c @@ d :
        c \in Opt("client_secret", Secrets), d \in Opt("clientSecret", {"otherS3cr3t"}) }
    \cup
    { [id_server |-> H1, client_secret |-> "s3cr3t"] }

\* threepid dicts: medium and address, and an optional id_server.
Threepids ==
    { [medium |-> m, address |-> a] @@ i :
        m \in Mediums, a \in Addresses, i \in Opt("id_server", Hosts) }

\* Bodies an identity server may answer a bind or getValidated3pid with.
ThreepidPayloads ==
    {[medium |-> m, address |-> a] : m \in Mediums, a \in Addresses}
        \cup {[address |-> a] : a \in Addresses}

VerifyResponses ==
    {Ok(d) : d \in ThreepidPayloads}
        \cup {Exc("HttpResponseException", 404, ReasonText),
              Exc("Exception", 0, "connection refused")}

BindResponses ==
    {Ok(d) : d \in ThreepidPayloads}
        \cup {Exc("HttpResponseException", 404, ReasonText),
              Exc("HttpResponseException", 400, JsonText),
              Exc("Exception", 0, "connection refused")}

UnbindResponses ==
    {Ok(EmptyDict),
     Exc("HttpResponseException", 404, ReasonText),
     Exc("HttpResponseException", 500, ReasonText),
     Exc("Exception", 0, "connection refused")}

TokenResponses ==
    {Ok([sid |-> "abc"]),
     Exc("HttpResponseException", 404, ReasonText),
     Exc("Exception", 0, "connection refused")}

Propagated(resp) == [type |-> resp.cls, code |-> resp.code, msg |-> resp.msg]

\* ------------------------------------------------- credential extraction

HasIdServer(creds) == Has(creds, "id_server") \/ Has(creds, "idServer")

\* A lookup that tries the idServer spelling first.
creds_id_server_camel_first(creds) ==
    IF Has(creds, "idServer") THEN creds["idServer"] ELSE creds["id_server"]

creds_id_server(creds) ==
    IF Has(creds, "id_server") THEN creds["id_server"] ELSE creds["idServer"]

HasClientSecret(creds) == Has(creds, "client_secret") \/ Has(creds, "clientSecret")

creds_client_secret(creds) ==
    IF Has(creds, "client_secret") THEN creds["client_secret"] ELSE creds["clientSecret"]

\* ------------------------------------------------- threepid_from_creds

threepid_from_creds_request(creds) ==
    Request("getValidated3pid", creds_id_server(creds), rewrite(creds_id_server(creds)),
            "/_matrix/identity/api/v1/3pid/getValidated3pid", "",
            [sid |-> creds["sid"], client_secret |-> creds_client_secret(creds)])

\* threepid_from_creds with the trust check ahead of the client_secret check.
threepid_from_creds_trust_first(c, creds) ==
    /\ Start(c, [op |-> "threepid_from_creds", creds |-> creds])
    /\ UNCHANGED <<store, todo, changed>>
    /\ IF ~HasIdServer(creds)
       THEN NoRequest(c) /\ Finish(c, Raise(SynapseError(400, "No id_server in creds")))
       ELSE IF ~should_trust_id_server(creds_id_server(creds))
       THEN NoRequest(c) /\ Finish(c, ReturnNone)
       ELSE IF ~HasClientSecret(creds)
       THEN NoRequest(c) /\ Finish(c, Raise(SynapseError(400, "No client_secret in creds")))
       ELSE IF ~Has(creds, "sid")
       THEN NoRequest(c) /\ Finish(c, Raise(KeyError("sid")))
       ELSE /\ Issue(c, threepid_from_creds_request(creds))
            /\ Await(c, "threepid_from_creds_wait")

threepid_from_creds(c, creds) ==
    /\ Start(c, [op |-> "threepid_from_creds", creds |-> creds])
    /\ UNCHANGED <<store, todo, changed>>
    /\ IF ~HasIdServer(creds)
       THEN NoRequest(c) /\ Finish(c, Raise(SynapseError(400, "No id_server in creds")))
       ELSE IF ~HasClientSecret(creds)
       THEN NoRequest(c) /\ Finish(c, Raise(SynapseError(400, "No client_secret in creds")))
       ELSE IF ~should_trust_id_server(creds_id_server(creds))
       THEN NoRequest(c) /\ Finish(c, ReturnNone)
       ELSE IF ~Has(creds, "sid")
       THEN NoRequest(c) /\ Finish(c, Raise(KeyError("sid")))
       ELSE /\ Issue(c, threepid_from_creds_request(creds))
            /\ Await(c, "threepid_from_creds_wait")

threepid_from_creds_resume(c, resp) ==
    /\ At(c, "threepid_from_creds_wait")
    /\ \E r \in Pending(c) : Answer(c, r, resp)
    /\ UNCHANGED <<config, store, call, todo, changed>>
    /\ IF IsInstance(resp, "HttpResponseException")
       THEN Finish(c, Raise(to_synapse_error(resp)))
       ELSE IF resp.kind = "exc"
       THEN Finish(c, Raise(Propagated(resp)))
       ELSE IF Has(resp.data, "medium")
       THEN Finish(c, Return(resp.data))
       ELSE Finish(c, ReturnNone)

\* ------------------------------------------------------- bind_threepid

\* The host the bind request is sent to: the rewrite rule applied.
bind_id_server_host(id_server) == rewrite(id_server)

\* A bind that records the host it sent the request to.
bind_stored_id_server_rewritten(id_server) == rewrite(id_server)

\* The id_server handed to store.add_user_bound_threepid.
bind_stored_id_server(id_server) == id_server

bind_threepid_request(creds, mxid) ==
    Request("bind", creds_id_server(creds), bind_id_server_host(creds_id_server(creds)),
            "/_matrix/identity/api/v1/3pid/bind", "",
            [sid |-> creds["sid"], client_secret |-> creds_client_secret(creds),
             mxid |-> mxid])

\* bind_threepid with the trust check of threepid_from_creds in it.
bind_threepid_trusted_only(c, creds, mxid) ==
    /\ Start(c, [op |-> "bind_threepid", creds |-> creds, mxid |-> mxid])
    /\ UNCHANGED <<store, todo, changed>>
    /\ IF ~HasIdServer(creds)
       THEN NoRequest(c) /\ Finish(c, Raise(SynapseError(400, "No id_server in creds")))
       ELSE IF ~HasClientSecret(creds)
       THEN NoRequest(c) /\ Finish(c, Raise(SynapseError(400, "No client_secret in creds")))
       ELSE IF ~should_trust_id_server(creds_id_server(creds))
       THEN NoRequest(c) /\ Finish(c, ReturnNone)
       ELSE IF ~Has(creds, "sid")
       THEN NoRequest(c) /\ Finish(c, Raise(KeyError("sid")))
       ELSE /\ Issue(c, bind_threepid_request(creds, mxid))
            /\ Await(c, "bind_threepid_wait")

bind_threepid(c, creds, mxid) ==
    /\ Start(c, [op |-> "bind_threepid", creds |-> creds, mxid |-> mxid])
    /\ UNCHANGED <<store, todo, changed>>
    /\ IF ~HasIdServer(creds)
       THEN NoRequest(c) /\ Finish(c, Raise(SynapseError(400, "No id_server in creds")))
       ELSE IF ~HasClientSecret(creds)
       THEN NoRequest(c) /\ Finish(c, Raise(SynapseError(400, "No client_secret in creds")))
       ELSE IF ~Has(creds, "sid")
       THEN NoRequest(c) /\ Finish(c, Raise(KeyError("sid")))
       ELSE /\ Issue(c, bind_threepid_request(creds, mxid))
            /\ Await(c, "bind_threepid_wait")

\* The response of the bind request arrives: on a body with medium and
\* address the coroutine calls store.add_user_bound_threepid and yields on it.
bind_threepid_resume(c, resp) ==
    /\ At(c, "bind_threepid_wait")
    /\ \E r \in Pending(c) : Answer(c, r, resp)
    /\ UNCHANGED <<config, store, call, todo, changed>>
    /\ IF resp.kind = "ok"
       THEN IF ~Has(resp.data, "medium")
            THEN Finish(c, Raise(KeyError("medium")))
            ELSE IF ~Has(resp.data, "address")
            THEN Finish(c, Raise(KeyError("address")))
            ELSE Await(c, "bind_threepid_store")
       ELSE IF IsInstance(resp, "CodeMessageException")
       THEN IF IsJson(resp.msg)
            THEN Finish(c, Return(json_loads(resp.msg)))
            ELSE Finish(c, Raise(JSONDecodeError(resp.msg)))
       ELSE Finish(c, Raise(Propagated(resp)))

\* store.add_user_bound_threepid completes: the row is written and the
\* coroutine returns the body.
bind_threepid_stored(c) ==
    /\ At(c, "bind_threepid_store")
    /\ UNCHANGED <<config, call, todo, changed>>
    /\ \E r \in Storing(c) :
          /\ store' = add_user_bound_threepid(
                          store, call[c].mxid, r.data["medium"], r.data["address"],
                          bind_stored_id_server(creds_id_server(call[c].creds)))
          /\ netlog' = [netlog EXCEPT ![c] = (@ \ {r}) \cup {Settled(r)}]
          /\ Finish(c, Return(r.data))

\* ------------------------------------------------- try_unbind_threepid

\* threepid.get("id_server") is truthy: the key is there and not "".
threepid_names_id_server(threepid) ==
    Has(threepid, "id_server") /\ threepid["id_server"] # ""

\* A lookup that falls back on a default identity server when the store
\* records none.
unbind_id_servers_or_default(mxid, threepid) ==
    IF get_id_servers_user_bound(store, mxid, threepid["medium"], threepid["address"]) = {<<>>}
    THEN {<<H1>>}
    ELSE get_id_servers_user_bound(store, mxid, threepid["medium"], threepid["address"])

\* store.get_id_servers_user_bound(user_id, medium, address): the lists the
\* call may return.
unbind_id_servers(mxid, threepid) ==
    get_id_servers_user_bound(store, mxid, threepid["medium"], threepid["address"])

\* Headers built after the rewrite rule was applied.
unbind_destination_is_rewritten(id_server) == rewrite(id_server)

\* destination_is of build_auth_headers.
unbind_destination_is(id_server) == id_server

\* id_server after the rewrite rule is applied: the host in the URL, and
\* the id_server handed to store.remove_user_bound_threepid.
unbind_rewritten_id_server(id_server) == rewrite(id_server)

unbind_request(mxid, threepid, id_server) ==
    Request("unbind", id_server, unbind_rewritten_id_server(id_server),
            "/_matrix/identity/api/v1/3pid/unbind", unbind_destination_is(id_server),
            [mxid |-> mxid,
             threepid |-> [medium |-> threepid["medium"], address |-> threepid["address"]]])

\* An except clause that takes 500 for one of the expected codes.
unbind_unsupported_with_500(resp) ==
    IsInstance(resp, "HttpResponseException") /\ resp.code \in {400, 404, 500, 501}

\* The except clause: an HttpResponseException with one of the expected
\* codes is swallowed, any other one becomes a 502.
unbind_unsupported(resp) ==
    IsInstance(resp, "HttpResponseException") /\ resp.code \in UnsupportedCodes

\* An except clause that lets an unexpected code pass once an earlier
\* id_server of the loop has answered with an expected one.
unbind_fatal_unless_unsupported_seen(c, resp) ==
    IsInstance(resp, "HttpResponseException") /\ ~unbind_unsupported(resp) /\ changed[c]

unbind_fatal(c, resp) ==
    IsInstance(resp, "HttpResponseException") /\ ~unbind_unsupported(resp)

\* An except clause that forgets `changed = False`.
unbind_one_changed_always(r) == TRUE

\* `changed` of try_unbind_threepid_with_id_server when it returns.
unbind_one_changed(r) == r.state = "ok"

\* `changed = ...` in place of `changed &= ...`.
unbind_accumulate_last(acc, one) == one

\* changed &= ...
unbind_accumulate(acc, one) == acc /\ one

\* The first iteration of the loop over id_servers, up to the request.
unbind_loop(c, mxid, threepid, id_servers) ==
    /\ Issue(c, unbind_request(mxid, threepid, Head(id_servers)))
    /\ todo' = [todo EXCEPT ![c] = Tail(id_servers)]
    /\ Await(c, "try_unbind_threepid_wait")

\* The call: with an id_server in the threepid the loop starts at once,
\* without one the coroutine yields on store.get_id_servers_user_bound.
try_unbind_threepid(c, mxid, threepid) ==
    /\ Start(c, [op |-> "try_unbind_threepid", mxid |-> mxid, threepid |-> threepid])
    /\ UNCHANGED <<store, changed>>
    /\ IF threepid_names_id_server(threepid)
       THEN unbind_loop(c, mxid, threepid, <<threepid["id_server"]>>)
       ELSE /\ NoRequest(c)
            /\ UNCHANGED todo
            /\ Await(c, "try_unbind_threepid_read")

\* store.get_id_servers_user_bound completes.
try_unbind_threepid_id_servers(c) ==
    /\ At(c, "try_unbind_threepid_read")
    /\ UNCHANGED <<config, store, call, changed>>
    /\ \E id_servers \in unbind_id_servers(call[c].mxid, call[c].threepid) :
       IF id_servers = <<>>
       THEN /\ UNCHANGED <<netlog, todo>>
            /\ Finish(c, Return(FALSE))
       ELSE unbind_loop(c, call[c].mxid, call[c].threepid, id_servers)

\* The response of an unbind request arrives: on success or an expected
\* error code the coroutine calls store.remove_user_bound_threepid and
\* yields on it.
try_unbind_threepid_resume(c, resp) ==
    /\ At(c, "try_unbind_threepid_wait")
    /\ UNCHANGED <<config, store, call, todo, changed>>
    /\ \E r \in Pending(c) : Answer(c, r, resp)
    /\ IF resp.kind = "exc" /\ ~IsInstance(resp, "HttpResponseException")
       THEN Finish(c, Raise(Propagated(resp)))
       ELSE IF unbind_fatal(c, resp)
       THEN Finish(c, Raise(SynapseError(502, "Failed to contact identity server")))
       ELSE Await(c, "try_unbind_threepid_remove")

\* store.remove_user_bound_threepid completes: the row is deleted, the
\* attempt's outcome goes into `changed`, and the loop goes on to the next
\* id_server or the call returns.
try_unbind_threepid_removed(c) ==
    /\ At(c, "try_unbind_threepid_remove")
    /\ UNCHANGED <<config, call>>
    /\ \E r \in Storing(c) :
       LET log == (netlog[c] \ {r}) \cup {Settled(r)}
           acc == unbind_accumulate(changed[c], unbind_one_changed(r))
       IN
       /\ store' = remove_user_bound_threepid(
                       store, call[c].mxid, call[c].threepid["medium"],
                       call[c].threepid["address"],
                       unbind_rewritten_id_server(r.id_server))
       /\ changed' = [changed EXCEPT ![c] = acc]
       /\ IF todo[c] = <<>>
          THEN /\ netlog' = [netlog EXCEPT ![c] = log]
               /\ UNCHANGED todo
               /\ Finish(c, Return(acc))
          ELSE /\ netlog' = [netlog EXCEPT ![c] =
                                log \cup {unbind_request(call[c].mxid, call[c].threepid,
                                                         Head(todo[c]))}]
               /\ todo' = [todo EXCEPT ![c] = Tail(@)]
               /\ Await(c, "try_unbind_threepid_wait")

\* ------------------------------------- requestEmailToken, requestMsisdnToken

Emails == {"alice@example.com"}
NextLinks == {"", "https://next.example/"}
Kwargs == {[next_link |-> "https://next.example/"]}

email_token_host(id_server) == rewrite(id_server)

\* requestMsisdnToken applies the rewrite rules, and then applies them to
\* the outcome once more.
msisdn_token_host(id_server) ==
    LET once == rewrite(id_server) IN
    IF once \in DOMAIN rewrite_identity_server_urls
    THEN rewrite_identity_server_urls[once]
    ELSE once

\* SynapseError(400, "Untrusted ID server '%s'" % id_server, Codes.SERVER_NOT_TRUSTED)
Untrusted(id_server) ==
    [type |-> "SynapseError", code |-> 400,
     msg |-> "Untrusted ID server '" \o id_server \o "'",
     errcode |-> "SERVER_NOT_TRUSTED"]

requestEmailToken(c, id_server, email, client_secret, send_attempt, next_link) ==
    /\ Start(c, [op |-> "requestEmailToken", id_server |-> id_server])
    /\ UNCHANGED <<store, todo, changed>>
    /\ IF ~should_trust_id_server(id_server)
       THEN NoRequest(c) /\ Finish(c, Raise(Untrusted(id_server)))
       ELSE /\ Issue(c, Request("requestEmailToken", id_server, email_token_host(id_server),
                                "/_matrix/identity/api/v1/validate/email/requestToken", "",
                                (IF next_link # "" THEN [next_link |-> next_link] ELSE EmptyDict)
                                @@ [email |-> email, client_secret |-> client_secret,
                                    send_attempt |-> send_attempt]))
            /\ Await(c, "requestToken_wait")

requestMsisdnToken(c, id_server, country, phone_number, client_secret, send_attempt, kwargs) ==
    /\ Start(c, [op |-> "requestMsisdnToken", id_server |-> id_server])
    /\ UNCHANGED <<store, todo, changed>>
    /\ IF ~should_trust_id_server(id_server)
       THEN NoRequest(c) /\ Finish(c, Raise(Untrusted(id_server)))
       ELSE /\ Issue(c, Request("requestMsisdnToken", id_server, msisdn_token_host(id_server),
                                "/_matrix/identity/api/v1/validate/msisdn/requestToken", "",
                                kwargs @@ [country |-> country, phone_number |-> phone_number,
                                           client_secret |-> client_secret,
                                           send_attempt |-> send_attempt]))
            /\ Await(c, "requestToken_wait")

requestToken_resume(c, resp) ==
    /\ At(c, "requestToken_wait")
    /\ \E r \in Pending(c) : Answer(c, r, resp)
    /\ UNCHANGED <<config, store, call, todo, changed>>
    /\ IF resp.kind = "ok"
       THEN Finish(c, Return(resp.data))
       ELSE IF IsInstance(resp, "HttpResponseException")
       THEN Finish(c, Raise(to_synapse_error(resp)))
       ELSE Finish(c, Raise(Propagated(resp)))

\* The caller takes the outcome of its finished call.
Returned(c) ==
    /\ pc[c] = "done"
    /\ pc' = [pc EXCEPT ![c] = "idle"]
    /\ call' = [call EXCEPT ![c] = NoCall]
    /\ netlog' = [netlog EXCEPT ![c] = {}]
    /\ todo' = [todo EXCEPT ![c] = <<>>]
    /\ changed' = [changed EXCEPT ![c] = TRUE]
    /\ result' = [result EXCEPT ![c] = NoResult]
    /\ UNCHANGED <<config, store>>

\* ------------------------------------------------------- specification

\* The handler is constructed over a configuration and a database that
\* holds whatever earlier runs have left in it; no call is in progress.
Init ==
    /\ \E cfg \in Configs :
          /\ trusted_id_servers = cfg.trusted
          /\ trust_any_id_server = cfg.any
          /\ rewrite_identity_server_urls = cfg.urls
    /\ store \in SUBSET Bindings
    /\ pc = [c \in Callers |-> "idle"]
    /\ call = [c \in Callers |-> NoCall]
    /\ netlog = [c \in Callers |-> {}]
    /\ todo = [c \in Callers |-> <<>>]
    /\ changed = [c \in Callers |-> TRUE]
    /\ result = [c \in Callers |-> NoResult]

Next ==
    \/ \E c \in Callers, creds \in Creds : threepid_from_creds(c, creds)
    \/ \E c \in Callers, resp \in VerifyResponses : threepid_from_creds_resume(c, resp)
    \/ \E c \in Callers, creds \in Creds, mxid \in Users : bind_threepid(c, creds, mxid)
    \/ \E c \in Callers, resp \in BindResponses : bind_threepid_resume(c, resp)
    \/ \E c \in Callers : bind_threepid_stored(c)
    \/ \E c \in Callers, mxid \in Users, threepid \in Threepids :
          try_unbind_threepid(c, mxid, threepid)
    \/ \E c \in Callers : try_unbind_threepid_id_servers(c)
    \/ \E c \in Callers, resp \in UnbindResponses : try_unbind_threepid_resume(c, resp)
    \/ \E c \in Callers : try_unbind_threepid_removed(c)
    \/ \E c \in Callers, id_server \in Hosts, email \in Emails, next_link \in NextLinks :
          requestEmailToken(c, id_server, email, "s3cr3t", 1, next_link)
    \/ \E c \in Callers, id_server \in Hosts, kwargs \in Kwargs :
          requestMsisdnToken(c, id_server, "GB", "07700900000", "s3cr3t", 1, kwargs)
    \/ \E c \in Callers, resp \in TokenResponses : requestToken_resume(c, resp)
    \/ \E c \in Callers : Returned(c)

Spec == Init /\ [][Next]_vars

\* The behaviours in which the calls are made one after the other: a handler
\* is called only when no other call is in progress.
Sequential == Cardinality({c \in Callers : pc[c] # "idle"}) <= 1

NextSeq == Next /\ Sequential'

SpecSeq == Init /\ [][NextSeq]_vars


\* ---------------------------------------------------------------------
\* Properties.  The vocabulary below reads each caller's call, its requests
\* and its outcome off the state; it does not go through the handlers'
\* helpers.
\* ---------------------------------------------------------------------

InUnbind(c) == call[c].op = "try_unbind_threepid"
InBind(c) == call[c].op = "bind_threepid"
InVerify(c) == call[c].op = "threepid_from_creds"
InToken(c) == call[c].op \in {"requestEmailToken", "requestMsisdnToken"}

RemoteOk(r) == r.state = "ok"
RemoteHttpError(r) == r.state = "exc" /\ r.exc = "HttpResponseException"
RemoteUnsupported(r) == RemoteHttpError(r) /\ r.code \in {400, 404, 501}
RemoteFatal(r) == RemoteHttpError(r) /\ r.code \notin {400, 404, 501}
RemoteUnreachable(r) == r.state = "exc" /\ r.exc # "HttpResponseException"
RemoteResolved(r) == RemoteOk(r) \/ RemoteUnsupported(r)

\* The host a rewrite rule sends h to (h itself when there is no rule).
DialOf(h) ==
    IF h \in DOMAIN rewrite_identity_server_urls
    THEN rewrite_identity_server_urls[h] ELSE h

\* The binding the unbind call of caller c is about, at identity server h.
UnbindBinding(c, h) ==
    Binding(call[c].mxid, call[c].threepid["medium"], call[c].threepid["address"], h)

\* Caller c's coroutine runs in the step being taken.
Stepped(c) == pc'[c] # pc[c]

\* The request of caller c that the step being taken answers.
JustAnswered(c, r) ==
    r \in netlog'[c] /\ r \notin netlog[c] /\ r.state # "pending" /\ ~r.settled

\* The request of caller c whose store call the step being taken completes.
JustSettled(c, r) == r \in netlog'[c] /\ r \notin netlog[c] /\ r.settled

\* C1: when the store call that follows an unbind request for logical host
\* h, answered with success or with 400, 404 or 501, has completed, the
\* store holds no binding (user, medium, address, h), also when a rewrite
\* rule sends h to another host.
C1_RemovalKeyedByLogicalHost ==
    [][ \A c \in Callers : \A r \in netlog'[c] :
            (InUnbind(c) /\ JustSettled(c, r) /\ RemoteResolved(r))
                => UnbindBinding(c, r.auth) \notin store' ]_vars

\* C2: when try_unbind_threepid has completed, in whatever way,
\* every host of the server set has received an unbind attempt.
C2_EveryHostAttempted ==
    \A c \in Callers : (InUnbind(c) /\ pc[c] = "done") => todo[c] = <<>>

\* The identity server a creds dict names.
NamedIdServer(creds) ==
    IF "id_server" \in DOMAIN creds THEN creds["id_server"] ELSE creds["idServer"]

\* C3: a bind answered with 2xx and a body holding medium and address adds
\* exactly the binding (mxid, body.medium, body.address, h) with h the host
\* the creds name, before any rewrite, and returns the body as it came.
C3_BindStoresLogicalHost ==
    [][ \A c \in Callers :
            (InBind(c) /\ pc[c] = "bind_threepid_store" /\ Stepped(c))
                => \E r \in netlog'[c] :
                      /\ RemoteOk(r)
                      /\ pc'[c] = "done"
                      /\ result'[c] = Return(r.data)
                      /\ store' = store \cup {Binding(call[c].mxid, r.data["medium"],
                                                      r.data["address"],
                                                      NamedIdServer(call[c].creds))} ]_vars

C3_Witness ==
    \E c \in Callers :
        /\ InBind(c) /\ pc[c] = "done" /\ result[c].kind = "return"
        /\ \E r \in netlog[c] :
              /\ RemoteOk(r)
              /\ r.dial # NamedIdServer(call[c].creds)
              /\ Binding(call[c].mxid, r.data["medium"], r.data["address"],
                         NamedIdServer(call[c].creds)) \in store
              /\ Binding(call[c].mxid, r.data["medium"], r.data["address"], r.dial) \notin store

\* C4: every unbind request carries an Authorization header signed for the
\* identity server the loop is at (the one the threepid names, when it names
\* one), is sent to the host the rewrite rules give for that server, and is
\* never signed for the host it is sent to when the two differ.
C4_SignedForLogicalHost ==
    \A c \in Callers : \A r \in netlog[c] :
        r.op = "unbind" =>
            /\ r.auth = r.id_server
            /\ r.dial = DialOf(r.id_server)
            /\ (r.dial # r.id_server => r.auth # r.dial)
            /\ ("id_server" \in DOMAIN call[c].threepid => r.auth = call[c].threepid["id_server"])

C4_Witness ==
    \E c \in Callers : \E r \in netlog[c] :
        r.op = "unbind" /\ r.dial # r.id_server /\ r.auth = r.id_server

Failed502 == Raise(SynapseError(502, "Failed to contact identity server"))

\* C5: when an unbind request is answered with an HTTP error whose status is
\* not 400, 404 or 501, the call ends there by raising the 502 SynapseError,
\* and the store is as it was before the answer.
C5_FatalRaises502AndKeepsBinding ==
    [][ \A c \in Callers :
            (InUnbind(c) /\ \E r \in netlog'[c] : JustAnswered(c, r) /\ RemoteFatal(r))
                => /\ pc'[c] = "done"
                   /\ result'[c] = Failed502
                   /\ store' = store ]_vars

C5_Witness ==
    \E c \in Callers :
        /\ InUnbind(c) /\ pc[c] = "done" /\ result[c] = Failed502
        /\ \E r \in netlog[c] :
              RemoteFatal(r) /\ r.code = 500 /\ UnbindBinding(c, r.id_server) \in store

\* C6: the answer to an unbind request decides the outcome of the attempt,
\* whatever the configuration, the store and the threepid: success counts as
\* True (the accumulator keeps its value), 400, 404 and 501 count as False
\* and raise nothing, any other HTTP error raises; a call with a single
\* attempt returns that attempt's True or False.  Of the HTTP error
\* statuses, 400, 404 and 501 are the ones taken as unsupported, and no
\* other.
C6_ResultFollowsRemoteOutcome ==
    /\ \A code \in 400..599 :
          unbind_unsupported(Exc("HttpResponseException", code, ""))
              = (code \in {400, 404, 501})
    /\ [][ \A c \in Callers : \A r \in netlog'[c] :
              /\ (InUnbind(c) /\ JustAnswered(c, r)) =>
                    /\ RemoteResolved(r) => pc'[c] = "try_unbind_threepid_remove"
                    /\ RemoteFatal(r) => (pc'[c] = "done" /\ result'[c].kind = "raise")
              /\ (InUnbind(c) /\ JustSettled(c, r)) =>
                    /\ result'[c].kind # "raise"
                    /\ RemoteOk(r) => changed'[c] = changed[c]
                    /\ RemoteUnsupported(r) => changed'[c] = FALSE
                    /\ (pc'[c] = "done" /\ netlog'[c] = {r})
                          => result'[c] = Return(RemoteOk(r)) ]_vars

C6_Witness ==
    \E c \in Callers :
        /\ InUnbind(c) /\ pc[c] = "done" /\ result[c] = Return(FALSE)
        /\ \E r \in netlog[c] : netlog[c] = {r} /\ RemoteUnsupported(r) /\ r.code = 404

\* C7: when try_unbind_threepid returns after at least one attempt, it
\* returns True exactly when every attempt was answered with success.
C7_AggregateIsAnd ==
    \A c \in Callers :
        (InUnbind(c) /\ pc[c] = "done" /\ result[c].kind = "return" /\ netlog[c] # {})
            => result[c].value = (\A r \in netlog[c] : RemoteOk(r))

C7_Witness ==
    \E c \in Callers :
        /\ InUnbind(c) /\ pc[c] = "done" /\ result[c] = Return(FALSE)
        /\ \E r1, r2 \in netlog[c] : RemoteUnsupported(r1) /\ RemoteOk(r2)
        /\ \A r \in netlog[c] : RemoteResolved(r)

NamesIdServer(threepid) == "id_server" \in DOMAIN threepid /\ threepid["id_server"] # ""

\* A binding of the (user, medium, address) the unbind call of c is about.
SameThreepid(c, b) ==
    /\ b.user_id = call[c].mxid
    /\ b.medium = call[c].threepid["medium"]
    /\ b.address = call[c].threepid["address"]

\* C8: try_unbind_threepid called with a threepid that names no id_server
\* issues no request before it has read the store; and when the store, at
\* that read, has no binding for (mxid, medium, address), the call returns
\* False, has issued no request, signed no header, and leaves the store as
\* it was.
C8_EmptyServerSetIsBenign ==
    [][ \A c \in Callers :
            /\ (pc[c] = "idle" /\ call'[c].op = "try_unbind_threepid"
                    /\ ~NamesIdServer(call'[c].threepid))
                  => /\ pc'[c] = "try_unbind_threepid_read"
                     /\ netlog'[c] = {}
                     /\ store' = store
            /\ (pc[c] = "try_unbind_threepid_read" /\ Stepped(c)
                    /\ ~\E b \in store : SameThreepid(c, b))
                  => /\ pc'[c] = "done"
                     /\ result'[c] = Return(FALSE)
                     /\ netlog'[c] = {}
                     /\ store' = store ]_vars

C8_Witness ==
    \E c \in Callers :
        /\ InUnbind(c) /\ pc[c] = "done" /\ result[c] = Return(FALSE)
        /\ ~NamesIdServer(call[c].threepid)
        /\ netlog[c] = {}
        /\ ~\E b \in store : SameThreepid(c, b)

\* C9: a bind whose request fails with a CodeMessageException (an
\* HttpResponseException is one) raises nothing: it returns.
C9_StructuredErrorIsReturned ==
    \A c \in Callers :
        (InBind(c) /\ pc[c] = "done"
            /\ \E r \in netlog[c] :
                  r.state = "exc" /\ r.exc \in {"CodeMessageException", "HttpResponseException"})
            => result[c].kind = "return"

LacksIdServer(creds) == {"id_server", "idServer"} \cap DOMAIN creds = {}
LacksClientSecret(creds) == {"client_secret", "clientSecret"} \cap DOMAIN creds = {}

\* C10: threepid_from_creds and bind_threepid called with creds that hold
\* neither id_server nor idServer, or neither client_secret nor clientSecret,
\* raise SynapseError 400 with no request issued and the store untouched,
\* whether or not the identity server named is trusted.
C10_MalformedCredsRejectedFirst ==
    [][ \A c \in Callers :
            (/\ pc[c] = "idle"
             /\ call'[c].op \in {"threepid_from_creds", "bind_threepid"}
             /\ (LacksIdServer(call'[c].creds) \/ LacksClientSecret(call'[c].creds)))
            => /\ pc'[c] = "done"
               /\ result'[c].kind = "raise"
               /\ result'[c].error.type = "SynapseError"
               /\ result'[c].error.code = 400
               /\ netlog'[c] = {}
               /\ store' = store ]_vars

C10_Witness ==
    \E c \in Callers :
        /\ InVerify(c) /\ pc[c] = "done"
        /\ ~LacksIdServer(call[c].creds) /\ LacksClientSecret(call[c].creds)
        /\ NamedIdServer(call[c].creds) \notin trusted_id_servers /\ ~trust_any_id_server
        /\ result[c] = Raise(SynapseError(400, "No client_secret in creds"))
        /\ netlog[c] = {}

\* h is in the trusted list, or the testing override is set.
TrustGranted(h) == h \in trusted_id_servers \/ trust_any_id_server

\* C11: threepid_from_creds called with creds that hold an id_server and a
\* client_secret (under either spelling), the id_server named being neither
\* in the trusted list nor let through by the override, returns None with no
\* request issued, whatever host the rewrite rules give for it; when the
\* id_server named is trusted (and a sid is given) a request is issued,
\* whatever host the rewrite rules give for it.
C11_UntrustedVerifyIsSilent ==
    [][ \A c \in Callers :
            (/\ pc[c] = "idle"
             /\ call'[c].op = "threepid_from_creds"
             /\ ~LacksIdServer(call'[c].creds) /\ ~LacksClientSecret(call'[c].creds))
            => /\ ~TrustGranted(NamedIdServer(call'[c].creds))
                    => (pc'[c] = "done" /\ result'[c] = ReturnNone /\ netlog'[c] = {})
               /\ (TrustGranted(NamedIdServer(call'[c].creds)) /\ "sid" \in DOMAIN call'[c].creds)
                    => (pc'[c] = "threepid_from_creds_wait" /\ Cardinality(netlog'[c]) = 1) ]_vars

C11_Witness ==
    \E c \in Callers :
        /\ InVerify(c) /\ pc[c] = "done" /\ result[c] = ReturnNone /\ netlog[c] = {}
        /\ ~LacksIdServer(call[c].creds) /\ ~LacksClientSecret(call[c].creds)
        /\ ~TrustGranted(NamedIdServer(call[c].creds))
        /\ TrustGranted(DialOf(NamedIdServer(call[c].creds)))

\* C12: requestEmailToken and requestMsisdnToken called with an id_server
\* that is not in the trusted list, the override being unset, raise the
\* SynapseError 400 with the server-not-trusted code and issue no request.
C12_UntrustedTokenRequestRaises ==
    [][ \A c \in Callers :
            (/\ pc[c] = "idle"
             /\ call'[c].op \in {"requestEmailToken", "requestMsisdnToken"}
             /\ call'[c].id_server \notin trusted_id_servers
             /\ ~trust_any_id_server)
            => /\ pc'[c] = "done"
               /\ result'[c].kind = "raise"
               /\ result'[c].error.type = "SynapseError"
               /\ result'[c].error.code = 400
               /\ result'[c].error.errcode = "SERVER_NOT_TRUSTED"
               /\ netlog'[c] = {} ]_vars

C12_Witness ==
    \E c \in Callers :
        /\ call[c].op = "requestMsisdnToken" /\ pc[c] = "done"
        /\ call[c].id_server \notin trusted_id_servers /\ ~trust_any_id_server
        /\ result[c].kind = "raise"
        /\ result[c].error.code = 400
        /\ result[c].error.errcode = "SERVER_NOT_TRUSTED"
        /\ netlog[c] = {}

\* C13: bind_threepid does not look at the trust configuration.  Called with
\* creds that hold id_server, client_secret and sid, it issues the bind
\* request, to the host the rewrite rules give, whether or not the id_server
\* is trusted; and after a 2xx answer with medium and address the binding is
\* added and the answer is returned, whether or not the id_server is trusted.
C13_BindIgnoresTrust ==
    [][ \A c \in Callers :
            /\ (/\ pc[c] = "idle"
                /\ call'[c].op = "bind_threepid"
                /\ ~LacksIdServer(call'[c].creds) /\ ~LacksClientSecret(call'[c].creds)
                /\ "sid" \in DOMAIN call'[c].creds)
               => /\ pc'[c] = "bind_threepid_wait"
                  /\ \E r \in netlog'[c] :
                        /\ netlog'[c] = {r}
                        /\ r.op = "bind"
                        /\ r.dial = DialOf(NamedIdServer(call'[c].creds))
            /\ (/\ InBind(c)
                /\ \E r \in netlog'[c] : /\ JustAnswered(c, r) /\ RemoteOk(r)
                                         /\ {"medium", "address"} \subseteq DOMAIN r.data)
               => pc'[c] = "bind_threepid_store"
            /\ (InBind(c) /\ pc[c] = "bind_threepid_store" /\ Stepped(c))
               => \E r \in netlog'[c] :
                     /\ result'[c] = Return(r.data)
                     /\ Binding(call[c].mxid, r.data["medium"], r.data["address"],
                                NamedIdServer(call[c].creds)) \in store' ]_vars

C13_Witness ==
    \E c \in Callers :
        /\ InBind(c) /\ pc[c] = "done" /\ result[c].kind = "return"
        /\ ~TrustGranted(NamedIdServer(call[c].creds))
        /\ \E r \in netlog[c] :
              /\ RemoteOk(r)
              /\ Binding(call[c].mxid, r.data["medium"], r.data["address"],
                         NamedIdServer(call[c].creds)) \in store

\* C14: should_trust_id_server(host) is true exactly when host is in the
\* trusted list or the testing override is set, for every hostname; and a
\* token request goes out exactly when its id_server is trusted in that sense.
C14_TrustedIffListedOrOverride ==
    /\ \A i \in 1..Len(HostName) :
          should_trust_id_server(HostName[i]) = TrustGranted(HostName[i])
    /\ \A c \in Callers :
          (InToken(c) /\ pc[c] # "idle") =>
              /\ (netlog[c] # {}) = TrustGranted(call[c].id_server)
              /\ (pc[c] = "done" /\ result[c].kind = "raise"
                    /\ result[c].error.code = 400 /\ netlog[c] = {})
                    = ~TrustGranted(call[c].id_server)

C14_Witness ==
    \E c \in Callers :
        /\ InToken(c) /\ pc[c] = "done"
        /\ trusted_id_servers = {} /\ ~trust_any_id_server
        /\ result[c].kind = "raise" /\ result[c].error.code = 400
        /\ \A i \in 1..Len(HostName) : ~should_trust_id_server(HostName[i])

NamedClientSecret(creds) ==
    IF "client_secret" \in DOMAIN creds THEN creds["client_secret"] ELSE creds["clientSecret"]

BothSpellings(creds) ==
    \/ {"id_server", "idServer"} \subseteq DOMAIN creds
    \/ {"client_secret", "clientSecret"} \subseteq DOMAIN creds

\* C15 as stated: creds that carry both spellings of id_server, or both
\* spellings of client_secret, are rejected by threepid_from_creds and
\* bind_threepid with the SynapseError 400.
C15_BothSpellingsRejected ==
    \A c \in Callers :
        ((InVerify(c) \/ InBind(c)) /\ BothSpellings(call[c].creds))
            => /\ netlog[c] = {}
               /\ pc[c] = "done" =>
                     (result[c].kind = "raise" /\ result[c].error.type = "SynapseError")

\* C15 amended: creds are well-formed when at least one spelling of
\* id_server and at least one spelling of client_secret are present.  Creds
\* that carry both spellings of a field are accepted, and the id_server and
\* client_secret spellings win over idServer and clientSecret: the request
\* goes to the host the rewrite rules give for the server so named, with the
\* secret so named (threepid_from_creds: provided that server is trusted).
C15_FirstSpellingWins ==
    [][ \A c \in Callers :
            (/\ pc[c] = "idle"
             /\ call'[c].op \in {"threepid_from_creds", "bind_threepid"}
             /\ ~LacksIdServer(call'[c].creds) /\ ~LacksClientSecret(call'[c].creds)
             /\ "sid" \in DOMAIN call'[c].creds
             /\ (call'[c].op = "bind_threepid" \/ TrustGranted(NamedIdServer(call'[c].creds))))
            => /\ pc'[c] \in {"threepid_from_creds_wait", "bind_threepid_wait"}
               /\ \E r \in netlog'[c] :
                     /\ netlog'[c] = {r}
                     /\ r.dial = DialOf(NamedIdServer(call'[c].creds))
                     /\ r.body.client_secret = NamedClientSecret(call'[c].creds) ]_vars

C15_Witness ==
    \E c \in Callers :
        /\ (InVerify(c) \/ InBind(c))
        /\ pc[c] \in {"threepid_from_creds_wait", "bind_threepid_wait"}
        /\ \/ /\ {"id_server", "idServer"} \subseteq DOMAIN call[c].creds
              /\ call[c].creds["id_server"] # call[c].creds["idServer"]
              /\ \E r \in netlog[c] : /\ r.dial = DialOf(call[c].creds["id_server"])
                                      /\ r.dial # DialOf(call[c].creds["idServer"])
           \/ /\ {"client_secret", "clientSecret"} \subseteq DOMAIN call[c].creds
              /\ call[c].creds["client_secret"] # call[c].creds["clientSecret"]
              /\ \E r \in netlog[c] : r.body.client_secret = call[c].creds["client_secret"]

\* The identity server a request of caller c is meant for.
LogicalHostOf(c, r) ==
    IF InToken(c) THEN call[c].id_server
    ELSE IF InVerify(c) \/ InBind(c) THEN NamedIdServer(call[c].creds)
    ELSE r.auth

\* C16: every request, of each of the five operations, is sent to the host
\* that one lookup of the identity server in the rewrite rules gives (the
\* identity server itself when it has no rule), also when the rules chain.
C16_DialIsSingleLookup ==
    \A c \in Callers : \A r \in netlog[c] : r.dial = DialOf(LogicalHostOf(c, r))

\* C17 as stated: a try_unbind_threepid in which some host answered with
\* 400, 404 or 501 does not raise.
C17_NoRaiseOnceUnsupported ==
    \A c \in Callers :
        (InUnbind(c) /\ pc[c] = "done" /\ \E r \in netlog[c] : RemoteUnsupported(r))
            => result[c].kind # "raise"

\* C17 amended: try_unbind_threepid raises the 502 SynapseError exactly when
\* an attempt was answered with an HTTP error outside 400, 404, 501, whether
\* or not other hosts answered 400, 404 or 501 before; when every answer was
\* a success or one of these three codes it returns.
C17_Raises502IffFatalAnswer ==
    \A c \in Callers :
        (InUnbind(c) /\ pc[c] = "done") =>
            /\ (result[c] = Failed502) = (\E r \in netlog[c] : RemoteFatal(r))
            /\ (\A r \in netlog[c] : RemoteResolved(r)) => result[c].kind = "return"

C17_Witness ==
    \E c \in Callers :
        /\ InUnbind(c) /\ pc[c] = "done" /\ result[c] = Failed502
        /\ \E r1, r2 \in netlog[c] : RemoteUnsupported(r1) /\ RemoteFatal(r2)

\* C18: a try_unbind_threepid whose threepid names id_server h issues one
\* unbind request, meant for h, whatever the store holds, and no step of it
\* drops a binding of the same (user, medium, address) at another identity
\* server than h.
C18_GivenServerOnly ==
    [][ \A c \in Callers :
            (call'[c].op = "try_unbind_threepid" /\ NamesIdServer(call'[c].threepid)
                /\ Stepped(c))
            => /\ \E r \in netlog'[c] :
                     netlog'[c] = {r} /\ r.op = "unbind"
                     /\ r.auth = call'[c].threepid["id_server"]
               /\ \A b \in store :
                     (/\ b.user_id = call'[c].mxid
                      /\ b.medium = call'[c].threepid["medium"]
                      /\ b.address = call'[c].threepid["address"]
                      /\ b.id_server # call'[c].threepid["id_server"]) => b \in store' ]_vars

\* C19: in the behaviours where the calls are made one after the other,
\* when a try_unbind_threepid whose threepid names no id_server has
\* returned, the store holds no binding for its (user, medium, address).
C19_ReturnedUnbindLeavesNoBinding ==
    \A c \in Callers :
        (InUnbind(c) /\ ~NamesIdServer(call[c].threepid)
            /\ pc[c] = "done" /\ result[c].kind = "return")
            => ~\E b \in store : SameThreepid(c, b)

\* C20: in the behaviours where the calls are made one after the other,
\* when a try_unbind_threepid over the identity servers the store records
\* has raised on a fatal answer, the binding at the identity server that
\* gave the fatal answer is still in the store, and so is the binding at
\* every identity server the loop had not reached.
C20_FatalLeavesOnlyResolvedRemoved ==
    \A c \in Callers :
        (InUnbind(c) /\ ~NamesIdServer(call[c].threepid)
            /\ pc[c] = "done" /\ result[c] = Failed502)
            => /\ \A r \in netlog[c] : RemoteFatal(r) => UnbindBinding(c, r.auth) \in store
               /\ \A i \in 1..Len(todo[c]) : UnbindBinding(c, todo[c][i]) \in store

====
